---- MODULE Spec2Model ----
(***************************************************************************)
(* Signal handlers of django-computedfields (computedfields/handlers.py).  *)
(*                                                                         *)
(* The handlers keep four dictionaries keyed by model instance, fill them  *)
(* in the pre-phase of a mutation and pop them in the post-phase.  The     *)
(* store (Django ORM) runs every mutation as pre-signal, database write,   *)
(* post-signal on the thread of the caller; several threads may run        *)
(* mutations at once and a mutation may abort after its pre-signal.        *)
(*                                                                         *)
(* The resolver (computedfields/resolver.py) is not part of the sources;   *)
(* its queries are modelled from the specification over a small schema:    *)
(*   Article(title, category -> Category, tags <-> Tag, tagSummary,        *)
(*           categoryName)                                                 *)
(*   Tag(name, articleTitles)      Category(name, articleCount, tagCloud)  *)
(***************************************************************************)
EXTENDS Integers, FiniteSets, Sequences, TLC

\* ---------------------------------------------------------------- bounds
NumPk == 2          \* primary keys 1..NumPk per entity type
MaxOps == 3         \* mutations started in one behaviour
MaxKey == 2         \* keys 1..MaxKey in the maps merge_pk_maps is applied to on its own

Threads == {1, 2}
Pks == 1..NumPk
Types == {"Article", "Tag", "Category"}
Instances == {<<ty, pk>> : ty \in Types, pk \in Pks}

\* ---------------------------------------------------------------- schema
\* _meta.get_fields() of the two many-to-many endpoints, in declaration order.
\* kind "ManyToManyField" is the declaring side, "ManyToManyRel" the reverse
\* relation object on the target; remote is the name of the field on the other end.
get_fields(model) ==
    IF model = "Article" THEN
        << [name |-> "title", many_to_many |-> FALSE, kind |-> "Field", through |-> "", remote |-> ""],
           [name |-> "category", many_to_many |-> FALSE, kind |-> "ForeignKey", through |-> "", remote |-> ""],
           [name |-> "tags", many_to_many |-> TRUE, kind |-> "ManyToManyField", through |-> "ArticleTags", remote |-> "articles"] >>
    ELSE IF model = "Tag" THEN
        << [name |-> "name", many_to_many |-> FALSE, kind |-> "Field", through |-> "", remote |-> ""],
           [name |-> "articles", many_to_many |-> TRUE, kind |-> "ManyToManyRel", through |-> "ArticleTags", remote |-> "tags"] >>
    ELSE
        << [name |-> "name", many_to_many |-> FALSE, kind |-> "Field", through |-> "", remote |-> ""] >>

\* junction associations an m2m_changed signal can name as sender; "HiddenLinks"
\* is a junction that no field returned by get_fields() of either endpoint uses
Junctions == {"ArticleTags", "HiddenLinks"}

\* active_resolver._fk_map: contributing foreign keys per type (absent: no entry)
fk_map == [m \in {"Article"} |-> {"category"}]

\* ---------------------------------------------------------------- maps
EmptyMap == [m \in {} |-> [pks |-> {}, fields |-> {}]]

Put(d, k, v) == [x \in (DOMAIN d) \cup {k} |-> IF x = k THEN v ELSE d[x]]
Pop(d, k) == [x \in (DOMAIN d) \ {k} |-> d[x]]
Get(d, k, default) == IF k \in DOMAIN d THEN d[k] ELSE default

RECURSIVE merge_loop(_, _, _)
merge_loop(mm1, mm2, todo) ==
    IF todo = {} THEN mm1
    ELSE LET model == CHOOSE m \in todo : TRUE
             m1 == Get(mm1, model, [pks |-> {}, fields |-> {}])
             upd == [pks |-> m1.pks \cup mm2[model].pks,
                     fields |-> m1.fields \cup mm2[model].fields]
         IN merge_loop(Put(mm1, model, upd), mm2, todo \ {model})

\* a merge that assigns the field names of mm2 instead of adding them
RECURSIVE merge_loop_assign(_, _, _)
merge_loop_assign(mm1, mm2, todo) ==
    IF todo = {} THEN mm1
    ELSE LET model == CHOOSE m \in todo : TRUE
             m1 == Get(mm1, model, [pks |-> {}, fields |-> {}])
             upd == [pks |-> m1.pks \cup mm2[model].pks, fields |-> mm2[model].fields]
         IN merge_loop_assign(Put(mm1, model, upd), mm2, todo \ {model})

merge_pk_maps_assign(mm1, mm2) == merge_loop_assign(mm1, mm2, DOMAIN mm2)

\* a merge that replaces the entry of mm1 by the one of mm2 (mm1.update(mm2))
merge_pk_maps_replace(mm1, mm2) ==
    [m \in DOMAIN mm1 \cup DOMAIN mm2 |-> IF m \in DOMAIN mm2 THEN mm2[m] ELSE mm1[m]]

\* merge_pk_maps(mm1, mm2): add mm2 onto mm1
merge_pk_maps(mm1, mm2) == merge_loop(mm1, mm2, DOMAIN mm2)

\* mm2 after merge_pk_maps(mm1, mm2): the loop reads mm2.items() and updates
\* the sets held by mm1; a type missing in mm1 gets a new pair of new sets
\* (setdefault(model, [set(), set()])), never the pair of mm2
merge_pk_maps_mm2(mm1, mm2) == mm2

\* A model instance is the dictionary key <<type, pk>>: two instances of the
\* same type with the same primary key are equal and hash alike.
VARIABLES
    exists,       \* rows in the database: set of <<type, pk>>
    category,     \* Article pk -> Category pk, 0 for NULL
    tags,         \* rows of the junction ArticleTags: set of <<article pk, tag pk>>
    UPDATE_OLD, DELETES, M2M_REMOVE, M2M_CLEAR,   \* the module-level dictionaries
    owner,        \* per dictionary and key: the thread whose handler stored the entry
    pend,         \* per thread: the mutation in flight
    ev,           \* what the last handler call did
    nops,         \* mutations started so far
    mutated,      \* the instances a mutation was started on
    Resolver_fk_map,   \* active_resolver._fk_map, the object get_contributing_fks() returns
    mm            \* arguments and results of merge_pk_maps called on its own

vars == <<exists, category, tags, UPDATE_OLD, DELETES, M2M_REMOVE, M2M_CLEAR,
          owner, pend, ev, nops, mutated, Resolver_fk_map, mm>>
db == <<exists, category, tags>>
buffers == <<UPDATE_OLD, DELETES, M2M_REMOVE, M2M_CLEAR>>

\* ---------------------------------------------------------------- resolver
\* (computedfields/resolver.py is not among the sources: modelled from the
\* specification's contract of the Dependency Resolver)

\* a dependent-update map from candidate entries, dropping the types with no key
DropEmpty(cand) ==
    [m \in {x \in DOMAIN cand : cand[x].pks # {}} |-> cand[m]]

ArticlesOf(ts) == {a \in Pks : \E t \in ts : <<a, t>> \in tags}
TagsOf(as) == {t \in Pks : \E a \in as : <<a, t>> \in tags}
CategoriesOf(as) == {category[a] : a \in {x \in as : <<"Article", x>> \in exists}} \ {0}

\* update_fields as passed by the store: not given (None) or a set of names
NoUF == [given |-> FALSE, fields |-> {}]
Truthy(uf) == uf.given /\ uf.fields # {}
Touches(uf, f) == ~Truthy(uf) \/ f \in uf.fields

\* the dependents of the plain fields and foreign keys of the given rows
field_dependents(model, pks, uf) ==
    LET rows == {p \in pks : <<model, p>> \in exists} IN
    IF model = "Article" THEN
        DropEmpty([m \in {"Category", "Tag"} |->
            IF m = "Category"
            THEN [pks |-> IF Touches(uf, "category") THEN CategoriesOf(rows) ELSE {},
                  fields |-> {"articleCount"}]
            ELSE [pks |-> IF Touches(uf, "title") THEN TagsOf(rows) ELSE {},
                  fields |-> {"articleTitles"}]])
    ELSE IF model = "Tag" THEN
        DropEmpty([m \in {"Article", "Category"} |->
            IF m = "Article"
            THEN [pks |-> IF Touches(uf, "name") THEN ArticlesOf(rows) ELSE {},
                  fields |-> {"tagSummary"}]
            ELSE [pks |-> IF Touches(uf, "name") THEN CategoriesOf(ArticlesOf(rows)) ELSE {},
                  fields |-> {"tagCloud"}]])
    ELSE
        DropEmpty([m \in {"Article"} |->
            [pks |-> IF Touches(uf, "name")
                     THEN {a \in Pks : <<"Article", a>> \in exists /\ category[a] \in rows}
                     ELSE {},
             fields |-> {"categoryName"}]])

\* the dependents of a many-to-many field, reached only when update_fields
\* names it: the computed fields fed by that direction of the relation
Names(uf, f) == Truthy(uf) /\ f \in uf.fields

relation_dependents(model, pks, uf) ==
    LET rows == {p \in pks : <<model, p>> \in exists} IN
    IF model = "Article" THEN
        DropEmpty([m \in {"Article", "Category"} |->
            IF m = "Article"
            THEN [pks |-> IF Names(uf, "tags") THEN rows ELSE {},
                  fields |-> {"tagSummary"}]
            ELSE [pks |-> IF Names(uf, "tags") THEN CategoriesOf(rows) ELSE {},
                  fields |-> {"tagCloud"}]])
    ELSE IF model = "Tag" THEN
        DropEmpty([m \in {"Tag"} |->
            [pks |-> IF Names(uf, "articles") THEN rows ELSE {},
             fields |-> {"articleTitles"}]])
    ELSE EmptyMap

\* _querysets_for_update(model, instance or queryset, update_fields, pk_list=True):
\* the records of every dependent type reached from the given rows in the
\* database as it is now, with the computed fields to refresh
querysets_for_update(model, pks, uf) ==
    merge_pk_maps(field_dependents(model, pks, uf), relation_dependents(model, pks, uf))

\* preupdate_dependent(instance, model): the dependents of the row as stored
preupdate_dependent(instance, sender) == querysets_for_update(sender, {instance[2]}, NoUF)

\* update_dependent(instance, model, update_fields, old, update_local=False),
\* called with the database in its new state: what gets recomputed is the
\* union of the old dependents and the dependents computed now
update_dependent(call) ==
    merge_pk_maps(call.old, querysets_for_update(call.model, call.pks, call.uf))

\* ---------------------------------------------------------------- handlers
\* the result of one handler call: the dictionary afterwards, whether the
\* instance's entry was assigned or removed, the resolver calls made
Result(buf, stored, popped, reported, queried, bulk, upd, err) ==
    [buf |-> buf, stored |-> stored, popped |-> popped, reported |-> reported,
     queried |-> queried, bulk |-> bulk, upd |-> upd, err |-> err]

Skip(buf) == Result(buf, FALSE, FALSE, EmptyMap, {}, {}, {}, FALSE)

\* for model, data in updates.items(): bulk_updater(model.objects.filter(pk__in=pks), fields)
BulkCalls(updates) ==
    {<<m, updates[m].pks, updates[m].fields>> : m \in DOMAIN updates}

\* a pre_save handler that does not narrow the contributing keys by update_fields
get_old_handler_all_fields(sender, instance, raw, adding, update_fields) ==
    IF raw \/ adding \/ Get(fk_map, sender, {}) = {} THEN Skip(UPDATE_OLD)
    ELSE LET data == preupdate_dependent(instance, sender)
             q == {<<"preupdate_dependent", sender, {instance[2]}>>} IN
    IF data # EmptyMap
    THEN Result(Put(UPDATE_OLD, instance, data), TRUE, FALSE, data, q, {}, {}, FALSE)
    ELSE Result(UPDATE_OLD, FALSE, FALSE, data, q, {}, {}, FALSE)

get_old_handler(sender, instance, raw, adding, update_fields) ==
    IF raw THEN Skip(UPDATE_OLD)
    ELSE IF adding THEN Skip(UPDATE_OLD)
    ELSE LET contributing_fks == Get(Resolver_fk_map, sender, {}) IN
    IF contributing_fks = {} THEN Skip(UPDATE_OLD)
    ELSE LET candidates == IF Truthy(update_fields)
                           THEN contributing_fks \cap update_fields.fields
                           ELSE contributing_fks IN
    IF candidates = {} THEN Skip(UPDATE_OLD)
    ELSE LET data == preupdate_dependent(instance, sender)
             q == {<<"preupdate_dependent", sender, {instance[2]}>>} IN
    IF data # EmptyMap
    THEN Result(Put(UPDATE_OLD, instance, data), TRUE, FALSE, data, q, {}, {}, FALSE)
    ELSE Result(UPDATE_OLD, FALSE, FALSE, data, q, {}, {}, FALSE)

\* a pre_save handler with candidates bound to the map's own set object, so
\* that candidates &= update_fields writes into the resolver's map
get_old_handler_fk_map_inplace(sender, raw, adding, update_fields) ==
    IF raw \/ adding \/ Get(Resolver_fk_map, sender, {}) = {} \/ ~Truthy(update_fields)
    THEN Resolver_fk_map
    ELSE [Resolver_fk_map EXCEPT ![sender] = @ \cap update_fields.fields]

\* what get_old_handler leaves in the resolver's map: contributing_fks is the
\* set object held by the map, candidates = set(contributing_fks) is a new
\* object, and candidates &= update_fields changes that new object in place,
\* so no entry of the map is written
get_old_handler_fk_map(sender, raw, adding, update_fields) == Resolver_fk_map

\* get_contributing_fks(): the introspection query returns the resolver's map
get_contributing_fks == Resolver_fk_map

\* a post_save handler that does not look at the raw marker
postsave_handler_any(sender, instance, raw, update_fields) ==
    Result(Pop(UPDATE_OLD, instance), FALSE, instance \in DOMAIN UPDATE_OLD, EmptyMap,
           {}, {},
           {[model |-> sender, pks |-> {instance[2]}, uf |-> update_fields,
             old |-> Get(UPDATE_OLD, instance, EmptyMap)]},
           FALSE)

\* a post_save handler that reads the entry of its instance and leaves it
postsave_handler_get(sender, instance, raw, update_fields) ==
    IF ~raw
    THEN Result(UPDATE_OLD, FALSE, FALSE, EmptyMap, {}, {},
                {[model |-> sender, pks |-> {instance[2]}, uf |-> update_fields,
                  old |-> Get(UPDATE_OLD, instance, EmptyMap)]},
                FALSE)
    ELSE Skip(UPDATE_OLD)

postsave_handler(sender, instance, raw, update_fields) ==
    IF ~raw
    THEN Result(Pop(UPDATE_OLD, instance), FALSE, instance \in DOMAIN UPDATE_OLD, EmptyMap,
                {}, {},
                {[model |-> sender, pks |-> {instance[2]}, uf |-> update_fields,
                  old |-> Get(UPDATE_OLD, instance, EmptyMap)]},
                FALSE)
    ELSE Skip(UPDATE_OLD)

\* a pre_delete handler that stores its capture whatever it holds
predelete_handler_always(sender, instance) ==
    LET data == querysets_for_update(sender, {instance[2]}, NoUF)
        q == {<<"_querysets_for_update", sender, {instance[2]}>>} IN
    Result(Put(DELETES, instance, data), TRUE, FALSE, data, q, {}, {}, FALSE)

\* a pre_delete handler that keys its entry by the primary key alone
predelete_handler_pk_key(sender, instance) ==
    LET data == querysets_for_update(sender, {instance[2]}, NoUF)
        q == {<<"_querysets_for_update", sender, {instance[2]}>>} IN
    IF data # EmptyMap
    THEN Result(Put(DELETES, <<"", instance[2]>>, data), TRUE, FALSE, data, q, {}, {}, FALSE)
    ELSE Result(DELETES, FALSE, FALSE, data, q, {}, {}, FALSE)

predelete_handler(sender, instance) ==
    LET data == querysets_for_update(sender, {instance[2]}, NoUF)
        q == {<<"_querysets_for_update", sender, {instance[2]}>>} IN
    IF data # EmptyMap
    THEN Result(Put(DELETES, instance, data), TRUE, FALSE, data, q, {}, {}, FALSE)
    ELSE Result(DELETES, FALSE, FALSE, data, q, {}, {}, FALSE)

\* a post_delete handler that recomputes from the entry of the update buffer
postdelete_handler_update_old(sender, instance) ==
    LET updates == Get(UPDATE_OLD, instance, EmptyMap) IN
    Result(Pop(DELETES, instance), FALSE, instance \in DOMAIN DELETES, EmptyMap,
           {}, BulkCalls(updates), {}, FALSE)

\* a post_delete handler that pops without a default: a missing entry is an error
postdelete_handler_strict(sender, instance) ==
    LET updates == Get(DELETES, instance, EmptyMap) IN
    Result(Pop(DELETES, instance), FALSE, instance \in DOMAIN DELETES, EmptyMap,
           {}, BulkCalls(updates), {}, instance \notin DOMAIN DELETES)

postdelete_handler(sender, instance) ==
    LET updates == Get(DELETES, instance, EmptyMap) IN
    Result(Pop(DELETES, instance), FALSE, instance \in DOMAIN DELETES, EmptyMap,
           {}, BulkCalls(updates), {}, FALSE)

\* the first element of a sequence of field declarations that satisfies the
\* test, as a sequence of length 0 or 1
RECURSIVE FirstThrough(_, _, _)
FirstThrough(fields, kinds, sender) ==
    IF fields = <<>> THEN <<>>
    ELSE IF Head(fields).many_to_many /\ Head(fields).kind \in kinds
            /\ Head(fields).through = sender
         THEN <<Head(fields)>>
         ELSE FirstThrough(Tail(fields), kinds, sender)

M2MKinds == {"ManyToManyField", "ManyToManyRel"}

\* getattr(instance, name).all(): the keys on the other side of the relation
\* manager of that name, as the junction holds them now
HasAccessor(instance, name) ==
    \/ instance[1] = "Article" /\ name = "tags"
    \/ instance[1] = "Tag" /\ name = "articles"

Accessor(instance, name) ==
    IF instance[1] = "Article" THEN TagsOf({instance[2]}) ELSE ArticlesOf({instance[2]})

Both(remove, clear) == [M2M_REMOVE |-> remove, M2M_CLEAR |-> clear]

\* the capture of pre_remove and of pre_clear: if other: merge_pk_maps(data, other)
Captured(data, other) == IF other # EmptyMap THEN merge_pk_maps(data, other) ELSE data

\* a handler whose pre_add captures the dependents of the instance as
\* pre_remove does
m2m_handler_add_captures(sender, instance, action, model, pk_set, reverse) ==
    LET data == querysets_for_update(instance[1], {instance[2]}, NoUF) IN
    IF action = "pre_add" /\ data # EmptyMap
    THEN Result(Both(Put(M2M_REMOVE, instance, data), M2M_CLEAR), TRUE, FALSE, data,
                {<<"_querysets_for_update", instance[1], {instance[2]}>>}, {}, {}, FALSE)
    ELSE Skip(Both(M2M_REMOVE, M2M_CLEAR))

\* a handler whose post_add asks for the full dependents of both ends
m2m_handler_full_add(sender, instance, action, model, pk_set, reverse) ==
    IF action = "post_add"
    THEN Result(Both(M2M_REMOVE, M2M_CLEAR), FALSE, FALSE, EmptyMap, {}, {},
                {[model |-> instance[1], pks |-> {instance[2]}, uf |-> NoUF, old |-> EmptyMap],
                 [model |-> model, pks |-> pk_set, uf |-> NoUF, old |-> EmptyMap]},
                FALSE)
    ELSE Skip(Both(M2M_REMOVE, M2M_CLEAR))

m2m_handler(sender, instance, action, model, pk_set, reverse) ==
    LET same == Both(M2M_REMOVE, M2M_CLEAR)
        own == querysets_for_update(instance[1], {instance[2]}, NoUF)
        qown == <<"_querysets_for_update", instance[1], {instance[2]}>>
    IN
    IF action = "post_add" THEN
        LET f1 == FirstThrough(get_fields(instance[1]), M2MKinds, sender)
            f2 == FirstThrough(get_fields(model), M2MKinds, sender)
            u1 == IF f1 # <<>>
                  THEN {[model |-> instance[1], pks |-> {instance[2]},
                         uf |-> [given |-> TRUE, fields |-> {f1[1].name}], old |-> EmptyMap]}
                  ELSE {}
            u2 == IF f2 # <<>>
                  THEN {[model |-> model, pks |-> pk_set,
                         uf |-> [given |-> TRUE, fields |-> {f2[1].name}], old |-> EmptyMap]}
                  ELSE {}
        IN Result(same, FALSE, FALSE, EmptyMap, {}, {}, u1 \cup u2, FALSE)
    ELSE IF action = "pre_remove" THEN
        LET other == querysets_for_update(model, pk_set, NoUF)
            data == Captured(own, other)
            q == {qown, <<"_querysets_for_update", model, pk_set>>}
        IN IF data # EmptyMap
           THEN Result(Both(Put(M2M_REMOVE, instance, data), M2M_CLEAR),
                       TRUE, FALSE, data, q, {}, {}, FALSE)
           ELSE Result(same, FALSE, FALSE, data, q, {}, {}, FALSE)
    ELSE IF action = "post_remove" THEN
        LET updates == Get(M2M_REMOVE, instance, EmptyMap) IN
        Result(Both(Pop(M2M_REMOVE, instance), M2M_CLEAR),
               FALSE, instance \in DOMAIN M2M_REMOVE, EmptyMap, {}, BulkCalls(updates), {}, FALSE)
    ELSE IF action = "pre_clear" THEN
        LET rel == IF reverse
                   THEN FirstThrough(get_fields(instance[1]), {"ManyToManyRel"}, sender)
                   ELSE FirstThrough(get_fields(model), {"ManyToManyRel"}, sender)
            name == IF reverse THEN rel[1].name ELSE rel[1].remote
        IN IF rel = <<>> THEN Result(same, FALSE, FALSE, EmptyMap, {qown}, {}, {}, TRUE)
           ELSE IF ~HasAccessor(instance, name)
           THEN Result(same, FALSE, FALSE, EmptyMap, {qown}, {}, {}, TRUE)
           ELSE LET others == Accessor(instance, name)
                    other == querysets_for_update(model, others, NoUF)
                    data == Captured(own, other)
                    q == {qown, <<"_querysets_for_update", model, others>>}
                IN IF data # EmptyMap
                   THEN Result(Both(M2M_REMOVE, Put(M2M_CLEAR, instance, data)),
                               TRUE, FALSE, data, q, {}, {}, FALSE)
                   ELSE Result(same, FALSE, FALSE, data, q, {}, {}, FALSE)
    ELSE IF action = "post_clear" THEN
        LET updates == Get(M2M_CLEAR, instance, EmptyMap) IN
        Result(Both(M2M_REMOVE, Pop(M2M_CLEAR, instance)),
               FALSE, instance \in DOMAIN M2M_CLEAR, EmptyMap, {}, BulkCalls(updates), {}, FALSE)
    ELSE Skip(same)

\* ---------------------------------------------------------------- the store
Idle == [kind |-> "idle", stage |-> "", sender |-> "", inst |-> <<"", 0>>, model |-> "",
         raw |-> FALSE, uf |-> NoUF, newcat |-> 0, pk_set |-> {}, reverse |-> FALSE,
         reported |-> EmptyMap]

Op(kind, sender, inst, model, raw, uf, newcat, pk_set, reverse, reported) ==
    [kind |-> kind, stage |-> "pre", sender |-> sender, inst |-> inst, model |-> model,
     raw |-> raw, uf |-> uf, newcat |-> newcat, pk_set |-> pk_set, reverse |-> reverse,
     reported |-> reported]

Event(h, t, op, res, prev) ==
    [h |-> h, t |-> t, inst |-> op.inst, sender |-> op.sender, raw |-> op.raw, uf |-> op.uf,
     newcat |-> op.newcat, pk_set |-> op.pk_set,
     recomputed |-> {update_dependent(c) : c \in res.upd},
     stored |-> res.stored, popped |-> res.popped, prevOwner |-> prev,
     expected |-> op.reported, reported |-> res.reported,
     queried |-> res.queried, bulk |-> res.bulk, upd |-> res.upd, err |-> res.err]

\* the thread that stored the entry a handler call assigns or removes, 0 if none
PrevOwner(name, inst, res) ==
    IF res.stored \/ res.popped THEN Get(owner[name], inst, 0) ELSE 0

Own(name, inst, res, t) ==
    [owner EXCEPT ![name] = IF res.stored THEN Put(@, inst, t)
                            ELSE IF res.popped THEN Pop(@, inst) ELSE @]

\* update_fields sets a pre_save or post_save signal carries for a type: not
\* given, one field, or (for an article) given and empty
UpdateFields(ty) ==
    IF ty = "Article"
    THEN {NoUF, [given |-> TRUE, fields |-> {"category"}], [given |-> TRUE, fields |-> {"title"}],
          [given |-> TRUE, fields |-> {}]}
    ELSE {NoUF, [given |-> TRUE, fields |-> {"name"}]}

\* the columns the store writes: all of them, or the ones update_fields names
Writes(uf, f) == ~uf.given \/ f \in uf.fields

OtherSide(ty) == IF ty = "Article" THEN "Tag" ELSE "Article"

NoMerge == [a |-> EmptyMap, b |-> EmptyMap, c |-> EmptyMap, done |-> FALSE,
            ab |-> EmptyMap, ba |-> EmptyMap, ab_c |-> EmptyMap, a_bc |-> EmptyMap,
            a_e |-> EmptyMap, e_a |-> EmptyMap, b_after |-> EmptyMap]

InitStore ==
    /\ exists = Instances
    /\ category = [a \in Pks |-> IF a = 1 THEN 1 ELSE 0]
    /\ tags = {<<1, 1>>}
    /\ UPDATE_OLD = EmptyMap
    /\ DELETES = EmptyMap
    /\ M2M_REMOVE = EmptyMap
    /\ M2M_CLEAR = EmptyMap
    /\ owner = [b \in {"UPDATE_OLD", "DELETES", "M2M_REMOVE", "M2M_CLEAR"} |-> EmptyMap]
    /\ pend = [t \in Threads |-> Idle]
    /\ ev = Event("init", 0, Idle, Skip(EmptyMap), 0)
    /\ nops = 0
    /\ mutated = {}
    /\ Resolver_fk_map = fk_map

Init == InitStore /\ mm = NoMerge

CanStart(t) == pend[t].kind = "idle" /\ nops < MaxOps

\* Model.save(): pre_save signal
PreSave(t) ==
    \E inst \in Instances, raw \in BOOLEAN, newcat \in 0..NumPk :
    \E uf \in UpdateFields(inst[1]) :
        /\ CanStart(t)
        /\ raw => uf = NoUF
        /\ IF inst[1] = "Article" /\ Writes(uf, "category")
           THEN TRUE
           ELSE newcat = 0
        /\ LET res == get_old_handler(inst[1], inst, raw, inst \notin exists, uf)
               op == Op("save", inst[1], inst, "", raw, uf, newcat, {}, FALSE, res.reported)
           IN /\ UPDATE_OLD' = res.buf
              /\ owner' = Own("UPDATE_OLD", inst, res, t)
              /\ ev' = Event("get_old_handler", t, op, res, PrevOwner("UPDATE_OLD", inst, res))
              /\ pend' = [pend EXCEPT ![t] = op]
        /\ Resolver_fk_map' = get_old_handler_fk_map(inst[1], raw, inst \notin exists, uf)
        /\ nops' = nops + 1
        /\ mutated' = mutated \cup {inst}
        /\ UNCHANGED <<db, DELETES, M2M_REMOVE, M2M_CLEAR, mm>>

\* Model.delete(): pre_delete signal; a Category that articles reference is protected
PreDelete(t) ==
    \E inst \in exists :
        /\ CanStart(t)
        /\ inst[1] = "Category" => \A a \in Pks : category[a] # inst[2]
        /\ LET res == predelete_handler(inst[1], inst)
               op == Op("delete", inst[1], inst, "", FALSE, NoUF, 0, {}, FALSE, res.reported)
           IN /\ DELETES' = res.buf
              /\ owner' = Own("DELETES", inst, res, t)
              /\ ev' = Event("predelete_handler", t, op, res, PrevOwner("DELETES", inst, res))
              /\ pend' = [pend EXCEPT ![t] = op]
        /\ nops' = nops + 1
        /\ mutated' = mutated \cup {inst}
        /\ UNCHANGED <<db, UPDATE_OLD, M2M_REMOVE, M2M_CLEAR, Resolver_fk_map, mm>>

\* the instances of many-to-many signals: either endpoint of a junction
M2MInstances == {i \in exists : i[1] \in {"Article", "Tag"}}

\* the key sets a many-to-many signal carries: the store sends none for no keys
PkSets(sender) == IF sender = "ArticleTags" THEN (SUBSET Pks) \ {{}} ELSE {{1}}

\* manager.add(): m2m_changed with action pre_add
PreAdd(t) ==
    \E inst \in M2MInstances, sender \in Junctions :
    \E pk_set \in PkSets(sender) :
        /\ CanStart(t)
        /\ LET res == m2m_handler(sender, inst, "pre_add", OtherSide(inst[1]), pk_set,
                                  inst[1] = "Tag")
               op == Op("add", sender, inst, OtherSide(inst[1]), FALSE, NoUF, 0, pk_set,
                        inst[1] = "Tag", res.reported)
           IN /\ M2M_REMOVE' = res.buf.M2M_REMOVE
              /\ M2M_CLEAR' = res.buf.M2M_CLEAR
              /\ ev' = Event("m2m_handler.pre_add", t, op, res, 0)
              /\ pend' = [pend EXCEPT ![t] = op]
        /\ nops' = nops + 1
        /\ mutated' = mutated \cup {inst}
        /\ UNCHANGED <<db, UPDATE_OLD, DELETES, owner, Resolver_fk_map, mm>>

\* manager.remove(): m2m_changed with action pre_remove
PreRemove(t) ==
    \E inst \in M2MInstances, sender \in {"ArticleTags"} :
    \E pk_set \in PkSets(sender) :
        /\ CanStart(t)
        /\ LET res == m2m_handler(sender, inst, "pre_remove", OtherSide(inst[1]), pk_set,
                                  inst[1] = "Tag")
               op == Op("remove", sender, inst, OtherSide(inst[1]), FALSE, NoUF, 0, pk_set,
                        inst[1] = "Tag", res.reported)
           IN /\ M2M_REMOVE' = res.buf.M2M_REMOVE
              /\ M2M_CLEAR' = res.buf.M2M_CLEAR
              /\ owner' = Own("M2M_REMOVE", inst, res, t)
              /\ ev' = Event("m2m_handler.pre_remove", t, op, res,
                             PrevOwner("M2M_REMOVE", inst, res))
              /\ pend' = [pend EXCEPT ![t] = op]
        /\ nops' = nops + 1
        /\ mutated' = mutated \cup {inst}
        /\ UNCHANGED <<db, UPDATE_OLD, DELETES, Resolver_fk_map, mm>>

\* manager.clear(): m2m_changed with action pre_clear; an exception raised by
\* the handler leaves the signal's send and ends the mutation
PreClear(t) ==
    \E inst \in M2MInstances, sender \in Junctions :
        /\ CanStart(t)
        /\ LET res == m2m_handler(sender, inst, "pre_clear", OtherSide(inst[1]), {},
                                  inst[1] = "Tag")
               op == Op("clear", sender, inst, OtherSide(inst[1]), FALSE, NoUF, 0, {},
                        inst[1] = "Tag", res.reported)
           IN /\ M2M_REMOVE' = res.buf.M2M_REMOVE
              /\ M2M_CLEAR' = res.buf.M2M_CLEAR
              /\ owner' = Own("M2M_CLEAR", inst, res, t)
              /\ ev' = Event("m2m_handler.pre_clear", t, op, res,
                             PrevOwner("M2M_CLEAR", inst, res))
              /\ pend' = [pend EXCEPT ![t] = IF res.err THEN Idle ELSE op]
        /\ nops' = nops + 1
        /\ mutated' = mutated \cup {inst}
        /\ UNCHANGED <<db, UPDATE_OLD, DELETES, Resolver_fk_map, mm>>

\* the junction rows a many-to-many mutation names
Links(op) ==
    IF op.inst[1] = "Article"
    THEN {<<op.inst[2], k>> : k \in op.pk_set}
    ELSE {<<k, op.inst[2]>> : k \in op.pk_set}

LinksOf(inst) ==
    IF inst[1] = "Article" THEN {l \in tags : l[1] = inst[2]}
    ELSE IF inst[1] = "Tag" THEN {l \in tags : l[2] = inst[2]}
    ELSE {}

\* the database write between the pre- and the post-signal
Written(t, kind) ==
    /\ pend[t].kind = kind
    /\ pend[t].stage = "pre"
    /\ pend' = [pend EXCEPT ![t].stage = "mutated"]
    /\ UNCHANGED <<buffers, owner, ev, nops, mutated, Resolver_fk_map, mm>>

\* INSERT or UPDATE of the row; a foreign key must name an existing row, and
\* an update of named fields must find its row
MutateSave(t) ==
    LET op == pend[t] IN
    /\ Written(t, "save")
    /\ op.newcat # 0 => <<"Category", op.newcat>> \in exists
    /\ op.inst \notin exists => ~Truthy(op.uf)
    /\ exists' = exists \cup {op.inst}
    /\ category' = IF op.inst[1] = "Article"
                      /\ (Writes(op.uf, "category") \/ op.inst \notin exists)
                   THEN [category EXCEPT ![op.inst[2]] = op.newcat]
                   ELSE category
    /\ tags' = tags

\* DELETE of the row and of the junction rows that name it
MutateDelete(t) ==
    LET op == pend[t] IN
    /\ Written(t, "delete")
    /\ op.inst[1] = "Category" => \A a \in Pks : category[a] # op.inst[2]
    /\ exists' = exists \ {op.inst}
    /\ category' = IF op.inst[1] = "Article"
                   THEN [category EXCEPT ![op.inst[2]] = 0]
                   ELSE category
    /\ tags' = tags \ LinksOf(op.inst)

MutateAdd(t) ==
    LET op == pend[t] IN
    /\ Written(t, "add")
    /\ op.inst \in exists
    /\ \A k \in op.pk_set : <<op.model, k>> \in exists
    /\ tags' = IF op.sender = "ArticleTags" THEN tags \cup Links(op) ELSE tags
    /\ UNCHANGED <<exists, category>>

MutateRemove(t) ==
    LET op == pend[t] IN
    /\ Written(t, "remove")
    /\ tags' = IF op.sender = "ArticleTags" THEN tags \ Links(op) ELSE tags
    /\ UNCHANGED <<exists, category>>

MutateClear(t) ==
    LET op == pend[t] IN
    /\ Written(t, "clear")
    /\ tags' = IF op.sender = "ArticleTags" THEN tags \ LinksOf(op.inst) ELSE tags
    /\ UNCHANGED <<exists, category>>

\* the mutation fails after its pre-signal: no write, no post-signal
Abort(t) ==
    /\ pend[t].kind # "idle"
    /\ pend[t].stage = "pre"
    /\ pend' = [pend EXCEPT ![t] = Idle]
    /\ UNCHANGED <<db, buffers, owner, ev, nops, mutated, Resolver_fk_map, mm>>

Mutated(t, kind) == pend[t].kind = kind /\ pend[t].stage = "mutated"

PostSave(t) ==
    LET op == pend[t] IN
    /\ Mutated(t, "save")
    /\ LET res == postsave_handler(op.sender, op.inst, op.raw, op.uf) IN
       /\ UPDATE_OLD' = res.buf
       /\ owner' = Own("UPDATE_OLD", op.inst, res, t)
       /\ ev' = Event("postsave_handler", t, op, res, PrevOwner("UPDATE_OLD", op.inst, res))
    /\ pend' = [pend EXCEPT ![t] = Idle]
    /\ UNCHANGED <<db, DELETES, M2M_REMOVE, M2M_CLEAR, nops, mutated, Resolver_fk_map, mm>>

PostDelete(t) ==
    LET op == pend[t] IN
    /\ Mutated(t, "delete")
    /\ LET res == postdelete_handler(op.sender, op.inst) IN
       /\ DELETES' = res.buf
       /\ owner' = Own("DELETES", op.inst, res, t)
       /\ ev' = Event("postdelete_handler", t, op, res, PrevOwner("DELETES", op.inst, res))
    /\ pend' = [pend EXCEPT ![t] = Idle]
    /\ UNCHANGED <<db, UPDATE_OLD, M2M_REMOVE, M2M_CLEAR, nops, mutated, Resolver_fk_map, mm>>

\* m2m_changed with action post_add, post_remove or post_clear
PostM2M(t, kind, name) ==
    LET op == pend[t] IN
    /\ Mutated(t, kind)
    /\ LET res == m2m_handler(op.sender, op.inst, "post_" \o kind, op.model, op.pk_set,
                              op.reverse) IN
       /\ M2M_REMOVE' = res.buf.M2M_REMOVE
       /\ M2M_CLEAR' = res.buf.M2M_CLEAR
       /\ owner' = Own(name, op.inst, res, t)
       /\ ev' = Event("m2m_handler.post_" \o kind, t, op, res, PrevOwner(name, op.inst, res))
    /\ pend' = [pend EXCEPT ![t] = Idle]
    /\ UNCHANGED <<db, UPDATE_OLD, DELETES, nops, mutated, Resolver_fk_map, mm>>

PostAdd(t) == PostM2M(t, "add", "M2M_REMOVE")
PostRemove(t) == PostM2M(t, "remove", "M2M_REMOVE")
PostClear(t) == PostM2M(t, "clear", "M2M_CLEAR")

SaveStep(t) == PreSave(t) \/ MutateSave(t) \/ PostSave(t) \/ Abort(t)

DeleteStep(t) == PreDelete(t) \/ MutateDelete(t) \/ PostDelete(t) \/ Abort(t)

M2MStep(t) ==
    \/ PreAdd(t) \/ MutateAdd(t) \/ PostAdd(t)
    \/ PreRemove(t) \/ MutateRemove(t) \/ PostRemove(t)
    \/ PreClear(t) \/ MutateClear(t) \/ PostClear(t)
    \/ Abort(t)

\* the whole system: every mutation category on every thread
Next == \E t \in Threads : SaveStep(t) \/ DeleteStep(t) \/ M2MStep(t)

Spec == Init /\ [][Next]_vars

\* its restrictions to one mutation category, each handler pair using a
\* dictionary of its own: updates run by two threads
NextSave == \E t \in Threads : SaveStep(t)

SpecSave == Init /\ [][NextSave]_vars

\* updates, deletions, many-to-many changes within one execution context
NextSaveSeq == SaveStep(1)

SpecSaveSeq == Init /\ [][NextSaveSeq]_vars

NextDelete == DeleteStep(1)

SpecDelete == Init /\ [][NextDelete]_vars

NextM2M == M2MStep(1)

SpecM2M == Init /\ [][NextM2M]_vars

\* every mutation category within one execution context
NextSeq == SaveStep(1) \/ DeleteStep(1) \/ M2MStep(1)

SpecSeq == Init /\ [][NextSeq]_vars

\* many-to-many additions alone
NextAdd == PreAdd(1) \/ MutateAdd(1) \/ PostAdd(1) \/ Abort(1)

SpecAdd == Init /\ [][NextAdd]_vars

\* ---------------------------------------------------------------- merge_pk_maps alone
\* the maps it is applied to: Article with any key set and either computed
\* field, Category with one key and either computed field, each type or none
MergeTypes == {"Article", "Category"}
MergeEntries(ty) ==
    IF ty = "Article"
    THEN [pks : SUBSET (1..MaxKey), fields : {{"tagSummary"}, {"categoryName"}}]
    ELSE [pks : {{1}}, fields : {{"articleCount"}, {"tagCloud"}}]
MergeMaps ==
    UNION {{f \in [D -> MergeEntries("Article") \cup MergeEntries("Category")] :
               \A ty \in D : f[ty] \in MergeEntries(ty)} : D \in SUBSET MergeTypes}

InitMerge ==
    /\ InitStore
    /\ \E A \in MergeMaps, B \in MergeMaps, C \in MergeMaps :
          mm = [NoMerge EXCEPT !.a = A, !.b = B, !.c = C]

\* each call gets its own copy of the arguments: the in-place update of mm1
\* by one call is not seen by the next
ApplyMerge ==
    /\ ~mm.done
    /\ mm' = [mm EXCEPT !.done = TRUE,
                        !.ab = merge_pk_maps(mm.a, mm.b),
                        !.ba = merge_pk_maps(mm.b, mm.a),
                        !.ab_c = merge_pk_maps(merge_pk_maps(mm.a, mm.b), mm.c),
                        !.a_bc = merge_pk_maps(mm.a, merge_pk_maps(mm.b, mm.c)),
                        !.a_e = merge_pk_maps(mm.a, EmptyMap),
                        !.e_a = merge_pk_maps(EmptyMap, mm.a),
                        !.b_after = merge_pk_maps_mm2(mm.a, mm.b)]
    /\ UNCHANGED <<db, buffers, owner, pend, ev, nops, mutated, Resolver_fk_map>>

SpecMerge == InitMerge /\ [][ApplyMerge]_vars

\* ---------------------------------------------------------------- claims

\* C1: when pre-delete(i), the deletion and post-delete(i) have run, the bulk
\* recomputation invoked is, per dependent type, exactly the keys and fields
\* the resolver reported for i at pre-delete time, although the dependents of
\* i computed after the deletion are empty.
C1_DeleteRecomputesSnapshot ==
    ev.h = "postdelete_handler" =>
        /\ ev.bulk = BulkCalls(ev.expected)
        /\ querysets_for_update(ev.sender, {ev.inst[2]}, NoUF) = EmptyMap

\* C2: when a non-raw update moves the contributing foreign key of an existing
\* instance from target A to target B, post-update hands the resolver the
\* dependents captured before the write and the instance, and the resolver
\* recomputes A as well as B.
C2Case ==
    /\ ev.h = "postsave_handler"
    /\ ~ev.raw
    /\ Touches(ev.uf, "category")
    /\ "Category" \in DOMAIN ev.expected
    /\ ev.newcat # 0
    /\ ev.newcat \notin ev.expected["Category"].pks

C2_OldAndNewTargets ==
    C2Case =>
        /\ ev.upd # {}
        /\ \A c \in ev.upd : c.old = ev.expected /\ c.pks = {ev.inst[2]}
        /\ \A r \in ev.recomputed :
              /\ "Category" \in DOMAIN r
              /\ ev.expected["Category"].pks \cup {ev.newcat} \subseteq r["Category"].pks

\* an update of an existing instance that names only fields outside the
\* contributing foreign keys of its type
NonContributing(e) ==
    /\ ~e.raw
    /\ Truthy(e.uf)
    /\ e.uf.fields \cap Get(fk_map, e.sender, {}) = {}

\* C3 as stated: an update that changes only a field outside the contributing
\* foreign keys triggers no recomputation of any dependent type, in neither
\* phase: the handlers ask the resolver for none.
C3_NoRecomputation ==
    (ev.h \in {"get_old_handler", "postsave_handler"} /\ NonContributing(ev)) =>
        /\ ev.bulk = {}
        /\ ev.upd = {}

\* C3 amended: such an update captures nothing in its pre-update phase (no
\* query for old dependents, no buffer entry stored or replaced), and its
\* post-update phase still asks the resolver to recompute the dependents of
\* the fields named, for the instance alone.
C3_NoCapture ==
    [][\A t \in Threads :
         /\ (pend[t].kind = "idle" /\ pend'[t].kind = "save" /\ NonContributing(pend'[t]))
               => /\ UPDATE_OLD' = UPDATE_OLD
                  /\ ev'.queried = {}
                  /\ ~ev'.stored
         /\ (Mutated(t, "save") /\ NonContributing(pend[t]) /\ pend'[t].kind = "idle")
               => \E c \in ev'.upd :
                     /\ ev'.upd = {c}
                     /\ c.uf = pend[t].uf
                     /\ c.pks = {pend[t].inst[2]}
                     /\ c.model = pend[t].sender]_vars

C3_Witness ==
    /\ ev.h = "postsave_handler"
    /\ ev.sender = "Tag"
    /\ NonContributing(ev)
    /\ \E r \in ev.recomputed : "Article" \in DOMAIN r

\* C4: within one execution context, the post-phase of an update recomputes
\* only from what the pre-phase of that same update captured, never from an
\* entry a previous, aborted update of the instance left behind.
C4_OwnCaptureOnly ==
    (ev.h = "postsave_handler" /\ ~ev.raw) => \A c \in ev.upd : c.old = ev.expected

\* C5: a buffer entry stored by a handler on one thread is never replaced or
\* popped by a handler running on another thread.
C5_ThreadScoped == ev.prevOwner \in {0, ev.t}

\* C6: an update phase with the raw marker is a no-op: the pre-phase stores
\* nothing and queries nothing, the post-phase recomputes nothing, and no
\* buffer changes.
RawPre(t) == pend[t].kind = "idle" /\ pend'[t].kind = "save" /\ pend'[t].raw
RawPost(t) == Mutated(t, "save") /\ pend[t].raw /\ pend'[t].kind = "idle"

C6_RawNoOp ==
    [][\A t \in Threads :
         (RawPre(t) \/ RawPost(t)) =>
            /\ UNCHANGED buffers
            /\ ev'.raw
            /\ ev'.queried = {} /\ ev'.upd = {} /\ ev'.bulk = {}
            /\ ~ev'.stored /\ ~ev'.popped]_vars

C6_Witness ==
    /\ ev.h = "postsave_handler"
    /\ ev.raw
    /\ ev.inst \in DOMAIN UPDATE_OLD

\* C7: a post_add or pre_clear event whose junction no many-to-many field of
\* either endpoint uses makes the handler fail with an error.
NoDeclaration(sender, instance, model) ==
    /\ FirstThrough(get_fields(instance[1]), M2MKinds, sender) = <<>>
    /\ FirstThrough(get_fields(model), M2MKinds, sender) = <<>>

C7_FailsLoudly ==
    (/\ ev.h \in {"m2m_handler.post_add", "m2m_handler.pre_clear"}
     /\ NoDeclaration(ev.sender, ev.inst, OtherSide(ev.inst[1]))) => ev.err

\* C8: post_remove bulk-recomputes, per dependent type, exactly the keys and
\* fields of the map that the pre_remove of the same removal captured: the
\* merge of the instance's dependents and of the dependents of the other-side
\* instances in the key set.
C8_RemoveRecomputesCapture ==
    ev.h = "m2m_handler.post_remove" => ev.bulk = BulkCalls(ev.expected)

\* C9: post_clear, fired from either side, recomputes exactly the set that the
\* pre_clear of the same clear captured from the relation before it was emptied.
C9_ClearRecomputesCapture ==
    ev.h = "m2m_handler.post_clear" => ev.bulk = BulkCalls(ev.expected)

\* C10: merge is commutative and associative and has the empty map as
\* identity, comparing per type the key set and the field-name set.
SameMap(x, y) ==
    /\ DOMAIN x = DOMAIN y
    /\ \A m \in DOMAIN x : x[m].pks = y[m].pks /\ x[m].fields = y[m].fields

C10_MergeLaws ==
    mm.done =>
        /\ SameMap(mm.ab, mm.ba)
        /\ SameMap(mm.ab_c, mm.a_bc)
        /\ SameMap(mm.a_e, mm.a)
        /\ SameMap(mm.e_a, mm.a)

C10_Witness ==
    /\ mm.done
    /\ \E m \in DOMAIN mm.a \cap DOMAIN mm.b :
          /\ mm.a[m].pks # mm.b[m].pks
          /\ mm.a[m].fields # mm.b[m].fields
          /\ mm.ab[m].pks = mm.a[m].pks \cup mm.b[m].pks
          /\ mm.ab[m].fields = mm.a[m].fields \cup mm.b[m].fields
    /\ DOMAIN mm.c \ DOMAIN mm.a # {}

\* C11: post_add for instance a and key set K asks the resolver for at most
\* two recomputations and nothing else: a alone with the one many-to-many
\* field of a's type that uses the firing junction, and the target-type rows
\* with keys in K with the matching field of the target type; no endpoint row
\* outside a and K is recomputed.
NarrowCall(c, ty, pks, sender) ==
    /\ c.model = ty
    /\ c.pks = pks
    /\ c.old = EmptyMap
    /\ c.uf.given
    /\ \E i \in DOMAIN get_fields(ty) :
          /\ get_fields(ty)[i].many_to_many
          /\ get_fields(ty)[i].through = sender
          /\ c.uf.fields = {get_fields(ty)[i].name}

C11_PostAddNarrow ==
    ev.h = "m2m_handler.post_add" =>
        LET a == ev.inst
            target == OtherSide(a[1])
        IN /\ Cardinality(ev.upd) <= 2
           /\ \A c \in ev.upd : \/ NarrowCall(c, a[1], {a[2]}, ev.sender)
                                \/ NarrowCall(c, target, ev.pk_set, ev.sender)
           /\ ev.bulk = {}
           /\ ev.queried = {}
           /\ \A r \in ev.recomputed :
                 /\ a[1] \in DOMAIN r => r[a[1]].pks \subseteq {a[2]}
                 /\ target \in DOMAIN r => r[target].pks \subseteq ev.pk_set

\* tag 1, which article 1 carries, is added to article 2: article 2 and tag 1
\* are recomputed, article 1 is not
C11_Witness ==
    /\ ev.h = "m2m_handler.post_add"
    /\ ev.sender = "ArticleTags"
    /\ ev.inst = <<"Article", 2>>
    /\ ev.pk_set = {1}
    /\ {<<1, 1>>, <<2, 1>>} \subseteq tags
    /\ Cardinality(ev.upd) = 2
    /\ \E r \in ev.recomputed : "Article" \in DOMAIN r /\ r["Article"].pks = {2}
    /\ \E r \in ev.recomputed : "Tag" \in DOMAIN r /\ r["Tag"].pks = {1}

C13_KnownDisjointShortCircuits ==
    (/\ ev.h = "get_old_handler"
     /\ ~ev.raw
     /\ ev.inst \in exists
     /\ ev.uf.given
     /\ ev.uf.fields \cap Get(fk_map, ev.sender, {}) = {})
        => ev.queried = {} /\ ~ev.stored

\* C14 as stated: after every post-update event for instance i, raw or not,
\* the update buffer holds no entry for i.
C14_PopUnconditional ==
    ev.h = "postsave_handler" => ev.inst \notin DOMAIN UPDATE_OLD

\* C14 amended: after a post-update event without the raw marker the update
\* buffer holds no entry for the instance, whether or not the pre-update of
\* that update stored one; a post-update with the raw marker removes nothing.
C14_PopUnlessRaw ==
    ev.h = "postsave_handler" =>
        IF ev.raw
        THEN ~ev.popped
        ELSE /\ ev.inst \notin DOMAIN UPDATE_OLD
             /\ \A c \in ev.upd : ev.popped <=> c.old # EmptyMap

\* the pre-update of this update returned early, and the post-update removed
\* the entry an earlier update had left
C14_Witness ==
    /\ ev.h = "postsave_handler"
    /\ ~ev.raw
    /\ ev.expected = EmptyMap
    /\ ev.popped
    /\ ev.inst \notin DOMAIN UPDATE_OLD

\* C15: a post-delete, post_remove or post_clear for an instance with no entry
\* in the buffer of its category raises no error, invokes no recomputation and
\* leaves all four buffers unchanged; a post-update with no entry passes an
\* empty old set to the resolver.
NoEntryPost(t, kind, buf) ==
    /\ Mutated(t, kind)
    /\ pend'[t].kind = "idle"
    /\ pend[t].inst \notin DOMAIN buf

Tolerated ==
    /\ ~ev'.err
    /\ ev'.bulk = {}
    /\ ev'.upd = {}
    /\ UNCHANGED buffers

C15_MissingEntryTolerated ==
    [][\A t \in Threads :
         /\ NoEntryPost(t, "delete", DELETES) => Tolerated
         /\ NoEntryPost(t, "remove", M2M_REMOVE) => Tolerated
         /\ NoEntryPost(t, "clear", M2M_CLEAR) => Tolerated
         /\ (NoEntryPost(t, "save", UPDATE_OLD) /\ ~pend[t].raw) =>
               /\ ~ev'.err
               /\ ev'.bulk = {}
               /\ ev'.upd # {}
               /\ \A c \in ev'.upd : c.old = EmptyMap
               /\ UNCHANGED buffers]_vars

\* a post_remove that found no entry of its instance in the remove buffer,
\* while the clear buffer holds an entry
C15_Witness ==
    /\ ev.h = "m2m_handler.post_remove"
    /\ ~ev.popped
    /\ ~ev.err
    /\ ev.bulk = {}
    /\ ev.inst \notin DOMAIN M2M_REMOVE
    /\ M2M_CLEAR # EmptyMap

\* the entries held by the four dictionaries together
TotalEntries ==
    Cardinality(DOMAIN UPDATE_OLD) + Cardinality(DOMAIN DELETES)
        + Cardinality(DOMAIN M2M_REMOVE) + Cardinality(DOMAIN M2M_CLEAR)

\* C16 as stated: in every reachable state, aborted mutations included, the
\* number of buffer entries held in one execution context does not exceed the
\* number of distinct instances mutated in that context.
C16_EntriesBoundedByInstances == TotalEntries <= Cardinality(mutated)

\* C16 amended: every entry of each of the four buffers is keyed by an
\* instance a mutation was started on, so each buffer holds at most one entry
\* per such instance and the four together at most four times their number.
C16_EntriesPerBuffer ==
    /\ DOMAIN UPDATE_OLD \subseteq mutated
    /\ DOMAIN DELETES \subseteq mutated
    /\ DOMAIN M2M_REMOVE \subseteq mutated
    /\ DOMAIN M2M_CLEAR \subseteq mutated
    /\ TotalEntries <= Cardinality(DOMAIN owner) * Cardinality(mutated)

\* one instance mutated, three aborted mutations of different categories:
\* three entries
C16_Witness ==
    \E i \in Instances :
        /\ mutated = {i}
        /\ i \in DOMAIN UPDATE_OLD \cap DOMAIN DELETES
        /\ TotalEntries = 3

\* C17: merge(mm1, mm2) holds every type of mm1 or mm2 once, with a key set
\* and a field-name set that include those the type had in mm1 and in mm2,
\* and mm2 has the same key sets and field sets after the call as before.
Includes(big, small) ==
    \A m \in DOMAIN small :
        /\ m \in DOMAIN big
        /\ small[m].pks \subseteq big[m].pks
        /\ small[m].fields \subseteq big[m].fields

PostOf(t, kind) == Mutated(t, kind) /\ pend'[t].kind = "idle"

Removes(before, after) == DOMAIN before \ DOMAIN after # {}

OwnEntry(t, buf) == Get(buf, pend[t].inst, EmptyMap)

C18_CategoriesApart ==
    [][\A t \in Threads :
         /\ PostOf(t, "save") =>
               /\ UNCHANGED <<DELETES, M2M_REMOVE, M2M_CLEAR>>
               /\ \A c \in ev'.upd : c.old = OwnEntry(t, UPDATE_OLD)
               /\ ev'.bulk = {}
         /\ PostOf(t, "delete") =>
               /\ UNCHANGED <<UPDATE_OLD, M2M_REMOVE, M2M_CLEAR>>
               /\ ev'.bulk = BulkCalls(OwnEntry(t, DELETES))
               /\ ev'.upd = {}
         /\ PostOf(t, "remove") =>
               /\ UNCHANGED <<UPDATE_OLD, DELETES, M2M_CLEAR>>
               /\ ev'.bulk = BulkCalls(OwnEntry(t, M2M_REMOVE))
               /\ ev'.upd = {}
         /\ PostOf(t, "clear") =>
               /\ UNCHANGED <<UPDATE_OLD, DELETES, M2M_REMOVE>>
               /\ ev'.bulk = BulkCalls(OwnEntry(t, M2M_CLEAR))
               /\ ev'.upd = {}
         /\ Removes(UPDATE_OLD, UPDATE_OLD') => \E u \in Threads : PostOf(u, "save")
         /\ Removes(DELETES, DELETES') => \E u \in Threads : PostOf(u, "delete")
         /\ Removes(M2M_REMOVE, M2M_REMOVE') => \E u \in Threads : PostOf(u, "remove")
         /\ Removes(M2M_CLEAR, M2M_CLEAR') => \E u \in Threads : PostOf(u, "clear")]_vars

\* a post-delete of an instance that holds an entry in the update buffer and
\* one with other contents in the delete buffer: the first stays, the second
\* is recomputed
C18_Witness ==
    /\ ev.h = "postdelete_handler"
    /\ ev.popped
    /\ ev.inst \in DOMAIN UPDATE_OLD
    /\ ev.inst \notin DOMAIN DELETES
    /\ ev.bulk # {}
    /\ ev.bulk # BulkCalls(UPDATE_OLD[ev.inst])

\* C19: in every reachable state each entry of the update, delete, remove and
\* clear buffers maps its instance to a map with at least one dependent type.
NoEmptyEntry(buf) == \A i \in DOMAIN buf : DOMAIN buf[i] # {}

C19_NoEmptyEntry ==
    /\ NoEmptyEntry(UPDATE_OLD)
    /\ NoEmptyEntry(DELETES)
    /\ NoEmptyEntry(M2M_REMOVE)
    /\ NoEmptyEntry(M2M_CLEAR)

\* a pre-delete whose capture was empty stored nothing, while the update
\* buffer holds an entry
C19_Witness ==
    /\ ev.h = "predelete_handler"
    /\ ev.queried # {}
    /\ ev.reported = EmptyMap
    /\ ~ev.stored
    /\ ev.inst \notin DOMAIN DELETES
    /\ UPDATE_OLD # EmptyMap

\* C20: a pre_add event captures nothing and recomputes nothing, a post_add
\* event stores and pops no buffer entry, and the four buffers are the same
\* after either event as before.
NoBufferUse ==
    /\ UNCHANGED buffers
    /\ ~ev'.stored
    /\ ~ev'.popped
    /\ ev'.queried = {}
    /\ ev'.bulk = {}

C20_AddUsesNoBuffer ==
    [][\A t \in Threads :
         /\ (pend[t].kind = "idle" /\ pend'[t].kind = "add") =>
               NoBufferUse /\ ev'.upd = {}
         /\ PostOf(t, "add") => NoBufferUse]_vars

\* a post_add that asked for recomputations while the remove buffer held an
\* entry of its instance, which is still there
C20_Witness ==
    /\ ev.h = "m2m_handler.post_add"
    /\ ev.upd # {}
    /\ ev.inst \in DOMAIN M2M_REMOVE
====
